---- MODULE Spec2Model ----
(***************************************************************************)
(* Model of the irit-rst-dt experiment harness: the configuration space    *)
(* of local.py, and the evaluate command of cmd/evaluate.py (campaign      *)
(* directories, fold file, the learn / decode / reassemble / report        *)
(* pipeline of every fold, the global report) run as a sequence of         *)
(* invocations over one file system.                                       *)
(*                                                                         *)
(* Keys and file names are sequences of tokens, so that joining keys with  *)
(* "-" and file name parts with "." is modelled as the concatenation the   *)
(* code performs.                                                          *)
(***************************************************************************)
EXTENDS Integers, Sequences, FiniteSets, TLC

(***************************************************************************)
(* Bounds of the model.                                                    *)
(***************************************************************************)
\* number of invocations of the evaluate command in one behaviour
MaxRuns == 2
\* number of distinct values timestamp() takes in one behaviour
MaxStamp == 2
\* length of a declared list of learners, decoders or settings, where the
\* generator is run over every declaration
MaxDecl == 2

(***************************************************************************)
(* Generic helpers.                                                        *)
(***************************************************************************)
RECURSIVE Join(_, _)
\* sep.join(parts) for a sequence of token sequences
Join(parts, sep) ==
    IF Len(parts) = 0 THEN << >>
    ELSE IF Len(parts) = 1 THEN parts[1]
    ELSE parts[1] \o <<sep>> \o Join(Tail(parts), sep)

RECURSIVE SelectSeqBy(_, _)
\* [x for x in s if keep[x]] where keep is a function on the elements
SelectSeqBy(s, keep) ==
    IF s = << >> THEN << >>
    ELSE (IF keep[Head(s)] THEN <<Head(s)>> ELSE << >>)
         \o SelectSeqBy(Tail(s), keep)

Range(s) == {s[i] : i \in DOMAIN s}

(***************************************************************************)
(* local.py: the declared configuration space.                             *)
(***************************************************************************)
\* the value None of an optional field
None == << >>

\* os.path.basename(TRAINING_CORPUS)
Dataset == <<"RSTtrees-WSJ-double-1.0">>

\* the corpora the evaluate command iterates over
TRAINING_CORPORA == <<Dataset>>

\* the basename of another corpus, for a TRAINING_CORPORA of two corpora
Dataset2 == <<"TRAINING">>

Datasets == {Dataset, Dataset2}

\* Keyed('maxent', LogisticRegression())
LEARNER_MAXENT == <<"maxent">>

\* LearnerConfig(attach, relate): key is the attach key, followed by the
\* relate key when there is a relation learner; prob is can_predict_proba
\* of the attachment payload; param identifies the decoder instance the
\* payload was constructed with (None for a plain learner)
LearnerConfig(attach, relate, prob, param) ==
    [key    |-> IF relate = None THEN attach ELSE attach \o <<"_">> \o relate,
     attach |-> attach,
     relate |-> relate,
     prob   |-> prob,
     param  |-> param]

\* plain learners: the model keeps the maxent entry of the declared list
_LOCAL_LEARNERS == << LearnerConfig(LEARNER_MAXENT, None, TRUE, None) >>

\* learners that take a decoder as argument: the model keeps struct-perc;
\* STRUCT_PERC_ARGS has use_prob=False
StructPerc(d) ==
    LearnerConfig(<<"struct", "-", "perc">>, LEARNER_MAXENT, FALSE, d)

\* STRUCT_PA_ARGS has use_prob=False
StructPa(d) ==
    LearnerConfig(<<"struct", "-", "pa">>, LEARNER_MAXENT, FALSE, d)

_STRUCTURED_LEARNERS == << "struct-perc" >>

\* application of the closure of _STRUCTURED_LEARNERS named by name
ApplyStructured(name, d) ==
    IF name = "struct-perc" THEN StructPerc(d) ELSE StructPa(d)

\* Keyed('local', decoder_local), Keyed('mst', decoder_mst)
_CORE_DECODERS == << <<"local">>, <<"mst">> >>

IntraFlag(strategy, intra_oracle, inter_oracle) ==
    [strategy |-> strategy, intra_oracle |-> intra_oracle,
     inter_oracle |-> inter_oracle]

NoIntra == [strategy |-> "none", intra_oracle |-> FALSE,
            inter_oracle |-> FALSE]

Settings(key, mode, intra) == [key |-> key, mode |-> mode, intra |-> intra]

\* the model keeps the heads and the post-label variants of the declared list
_SETTINGS ==
    << Settings(<<"AD.L_joint_intra_heads">>, "joint",
                IntraFlag("heads", FALSE, FALSE)),
       Settings(<<"AD.L_post">>, "post_label", NoIntra) >>

\* combined_key(variants): the keys joined by "-"
combined_key(keys) == Join(keys, "-")

\* KeyedDecoder(key, payload, settings); the payload is identified by the
\* core decoder and the settings it was built from
_mk_keyed_decoder(kdecoder, settings) ==
    [key      |-> combined_key(<<settings.key, kdecoder>>),
     core     |-> kdecoder,
     settings |-> settings]

\* (variant: learners that give no probability are kept in every mode)
_is_junk_proba(klearner, kdecoder) ==
    LET intra_flag == kdecoder.settings.intra IN
    \/ /\ kdecoder.key # <<"mst">>
       /\ intra_flag # NoIntra
       /\ intra_flag.strategy = "heads"
    \/ /\ klearner.key = <<"oracle">>
       /\ intra_flag # NoIntra
       /\ (intra_flag.intra_oracle \/ intra_flag.inter_oracle)

_is_junk(klearner, kdecoder) ==
    LET intra_flag == kdecoder.settings.intra IN
    \/ /\ kdecoder.key # <<"mst">>
       /\ intra_flag # NoIntra
       /\ intra_flag.strategy = "heads"
    \/ /\ klearner.key = <<"oracle">>
       /\ intra_flag # NoIntra
       /\ (intra_flag.intra_oracle \/ intra_flag.inter_oracle)
    \/ /\ ~klearner.prob
       /\ kdecoder.settings.mode # "post_label"

RECURSIVE Product(_, _)
\* list(itertools.product(xs, ys)): xs-major order
Product(xs, ys) ==
    IF xs = << >> THEN << >>
    ELSE [j \in 1..Len(ys) |-> <<Head(xs), ys[j]>>] \o Product(Tail(xs), ys)

RECURSIVE StructuredPairs_product(_, _)
\* (variant: the learners built for every decoder, paired with every decoder)
StructuredPairs_product(structured, kdecoders) ==
    IF structured = << >> THEN << >>
    ELSE Product([j \in 1..Len(kdecoders) |->
                     ApplyStructured(Head(structured), kdecoders[j].key)],
                 kdecoders)
         \o StructuredPairs_product(Tail(structured), kdecoders)

RECURSIVE StructuredPairs(_, _)
\* for klearner in structured: pairs.extend((klearner(d.payload), d) ...)
StructuredPairs(structured, kdecoders) ==
    IF structured = << >> THEN << >>
    ELSE [j \in 1..Len(kdecoders) |->
             <<ApplyStructured(Head(structured), kdecoders[j].key),
               kdecoders[j]>>]
         \o StructuredPairs(Tail(structured), kdecoders)

EvaluationConfig(klearner, kdecoder) ==
    [key      |-> combined_key(<<klearner.key, kdecoder.key>>),
     settings |-> kdecoder.settings,
     learner  |-> klearner,
     decoder  |-> kdecoder]

\* what the module declares: the four lists _mk_evaluations reads, and the
\* corpora
Declared ==
    [local      |-> _LOCAL_LEARNERS,
     structured |-> _STRUCTURED_LEARNERS,
     core       |-> _CORE_DECODERS,
     settings   |-> _SETTINGS,
     corpora    |-> TRAINING_CORPORA]

\* kdecoders of _mk_evaluations
KeyedDecoders(decl) ==
    LET ds == Product(decl.core, decl.settings)
    IN [i \in 1..Len(ds) |-> _mk_keyed_decoder(ds[i][1], ds[i][2])]

\* _mk_evaluations() over the declared lists decl
_mk_evaluations(decl) ==
    LET kdecoders == KeyedDecoders(decl)
        pairs == Product(decl.local, kdecoders)
                 \o StructuredPairs(decl.structured, kdecoders)
        kept == SelectSeqBy(pairs,
                    [p \in Range(pairs) |-> ~_is_junk(p[1], p[2])])
    IN [i \in 1..Len(kept) |-> EvaluationConfig(kept[i][1], kept[i][2])]

EVALUATIONS == _mk_evaluations(Declared)


\* learner_confs of _do_fold: the first configuration of every run of
\* consecutive configurations with equal learners (itertools.groupby)
learner_confs ==
    SelectSeqBy([i \in 1..Len(EVALUATIONS) |-> i],
                [i \in 1..Len(EVALUATIONS) |->
                    \/ i = 1
                    \/ EVALUATIONS[i].learner # EVALUATIONS[i - 1].learner])

NL == Len(learner_confs)
NE == Len(EVALUATIONS)

(***************************************************************************)
(* The corpus and its folds.                                               *)
(***************************************************************************)
Items == {"d1", "d2"}
FoldIds == {0, 1}

\* the fold ids a command line can list after --folds (type=int): those of
\* the partition, and one that no partition has
ArgFolds == FoldIds \cup {Cardinality(FoldIds)}

\* the partitions enfold can write: sets of <<item, fold>> pairs in which
\* every item has one fold and every fold has an item
Partitions ==
    {{<<d, g[d]>> : d \in Items} :
        g \in {h \in [Items -> FoldIds] : \A n \in FoldIds : \E d \in Items : h[d] = n}}

\* frozenset(dconf.folds.values())
FoldValues(part) == {pr[2] : pr \in part}

RECURSIVE Orders(_)
\* the orders in which a set can be iterated
Orders(S) ==
    IF S = {} THEN {<< >>}
    ELSE UNION {{<<x>> \o o : o \in Orders(S \ {x})} : x \in S}

(***************************************************************************)
(* cmd/evaluate.py: paths.  A path is <<root, directory, basename>>.       *)
(***************************************************************************)
FoldStr(fold) == <<"0", "1", "2", "3">>[fold + 1]

EvalPath(base) == <<"eval", None, base>>

_eval_data_path(ds, ext) == EvalPath(Join(<<ds, ext>>, "."))

_features_path(ds) == _eval_data_path(ds, <<"relations", ".", "sparse">>)

_edu_input_path(ds) == EvalPath(_features_path(ds)[3] \o <<".", "edu_input">>)

VersionsPath == EvalPath(<<"versions", ".", "txt">>)

FoldFilePath(ds) == EvalPath(<<"folds", "-">> \o ds \o <<".", "json">>)

_fold_dir_basename(fold) == <<"fold", "-", FoldStr(fold)>>

_fold_dir_path(fold) == <<"scratch", _fold_dir_basename(fold), None>>

_eval_model_path(ds, econf, fold, mtype) ==
    <<"scratch", _fold_dir_basename(fold),
      Join(<<ds, econf.learner.key, <<mtype>>, <<"model">>>>, ".")>>

_decode_output_basename(econf) == Join(<<<<"output">>, econf.key>>, ".")

_decode_output_path(econf, fold) ==
    <<"scratch", _fold_dir_basename(fold), _decode_output_basename(econf)>>

\* the per-group outputs a decode job leaves for concatenate_outputs
DecodePartsPath(econf, fold) ==
    <<"scratch", _fold_dir_basename(fold),
      _decode_output_basename(econf) \o <<".", "parts">>>>

\* parent_dir is None for the scratch directory, else a fold directory
_report_dir(ds, parent_dir) == <<"scratch", parent_dir, <<"reports", "-">> \o ds>>

IndexPath(parent_dir) == <<"scratch", parent_dir, <<"index", ".", "json">>>>

final_report_dir(ds) == EvalPath(_report_dir(ds, None)[3])

FoldPaths(fold) ==
    {_fold_dir_path(fold), IndexPath(_fold_dir_basename(fold))}
    \cup {_report_dir(ds, _fold_dir_basename(fold)) : ds \in Datasets}
    \cup {_eval_model_path(ds, EVALUATIONS[i], fold, mtype) :
             ds \in Datasets, i \in 1..NE, mtype \in {"attach", "relate"}}
    \cup {_decode_output_path(EVALUATIONS[i], fold) : i \in 1..NE}
    \cup {DecodePartsPath(EVALUATIONS[i], fold) : i \in 1..NE}

EvalPaths ==
    {VersionsPath}
    \cup {_edu_input_path(ds) : ds \in Datasets}
    \cup {FoldFilePath(ds) : ds \in Datasets}
    \cup {final_report_dir(ds) : ds \in Datasets}

ScratchPaths ==
    {IndexPath(None)} \cup {_report_dir(ds, None) : ds \in Datasets}
    \cup UNION {FoldPaths(f) : f \in ArgFolds}

Paths == EvalPaths \cup ScratchPaths

IndexPaths == {IndexPath(None)} \cup {IndexPath(_fold_dir_basename(f)) : f \in ArgFolds}

\* mk_index(folds, configurations)
mk_index(folds, configurations) == [folds |-> folds, configurations |-> configurations]

NoIndex == mk_index({}, {})

Configurations == {_decode_output_basename(EVALUATIONS[i]) : i \in 1..NE}


(***************************************************************************)
(* decode.py: delayed_decode, the models a decode job is given.            *)
(***************************************************************************)
\* attelo.util.Team(attach, relate)
Team(attach, relate) == [attach |-> attach, relate |-> relate]

\* what a side of a team holds: <<kind, file>>, the string 'oracle' (no
\* file) or the model stored in a file
Oracle == <<"oracle", None>>

\* Team('oracle', 'oracle')
OracleTeam == Team(Oracle, Oracle)

\* attelo.io.load_model(path): the model stored in the file
load_model(path) == <<"model", path>>

\* paths.fmap(load_model), and the files it reads
TeamLoad(paths) ==
    [models |-> Team(load_model(paths.attach), load_model(paths.relate)),
     read   |-> {paths.attach, paths.relate}]

\* the document-level model files of a learner in a fold
attelo_doc_model_paths(rconf, fold) ==
    Team(<<"doc", rconf.key, fold, "attach">>,
         <<"doc", rconf.key, fold, "relate">>)

\* the sentence-level model files of a learner in a fold
attelo_sent_model_paths(rconf, fold) ==
    Team(<<"sent", rconf.key, fold, "attach">>,
         <<"sent", rconf.key, fold, "relate">>)

IntraInterPair(intra, inter) == [intra |-> intra, inter |-> inter]

\* (variant: the inter side follows the intra_oracle flag too)
delayed_decode_models_joint(econf, fold) ==
    LET doc_model_paths == attelo_doc_model_paths(econf.learner, fold)
        intra_flag == econf.settings.intra
    IN IF intra_flag # NoIntra
       THEN LET sent_model_paths == attelo_sent_model_paths(econf.learner, fold)
                intra_model == IF intra_flag.intra_oracle
                               THEN [models |-> OracleTeam, read |-> {}]
                               ELSE TeamLoad(sent_model_paths)
                inter_model == IF intra_flag.intra_oracle
                               THEN [models |-> OracleTeam, read |-> {}]
                               ELSE TeamLoad(doc_model_paths)
            IN [models |-> IntraInterPair(intra_model.models, inter_model.models),
                read   |-> intra_model.read \cup inter_model.read]
       ELSE TeamLoad(doc_model_paths)

\* the models of delayed_decode and the model files it reads for them; of a
\* conditional expression only the chosen branch is evaluated
delayed_decode_models(econf, fold) ==
    LET doc_model_paths == attelo_doc_model_paths(econf.learner, fold)
        intra_flag == econf.settings.intra
    IN IF intra_flag # NoIntra
       THEN LET sent_model_paths == attelo_sent_model_paths(econf.learner, fold)
                intra_model == IF intra_flag.intra_oracle
                               THEN [models |-> OracleTeam, read |-> {}]
                               ELSE TeamLoad(sent_model_paths)
                inter_model == IF intra_flag.inter_oracle
                               THEN [models |-> OracleTeam, read |-> {}]
                               ELSE TeamLoad(doc_model_paths)
            IN [models |-> IntraInterPair(intra_model.models, inter_model.models),
                read   |-> intra_model.read \cup inter_model.read]
       ELSE TeamLoad(doc_model_paths)

\* the settings delayed_decode is tried with: post-label decoding without an
\* intra flag, and with every strategy and every pair of oracle flags
DecodeSettings ==
    {Settings(<<"AD.L_post">>, "post_label", NoIntra)}
    \cup {Settings(<<"AD.L_post", "_intra_", s>>
                       \o (IF io THEN <<"_sorc">> ELSE << >>)
                       \o (IF eo THEN <<"_dorc">> ELSE << >>),
                   "post_label", IntraFlag(s, io, eo)) :
             s \in {"soft", "heads", "only"}, io \in BOOLEAN, eo \in BOOLEAN}

\* the calls of delayed_decode the model tries: a configuration, a fold, and
\* whether decode_output_path(lconf, econf, fold) exists
DecodeCalls ==
    [econf   : {EvaluationConfig(l, _mk_keyed_decoder(<<"mst">>, s)) :
                   l \in {LearnerConfig(LEARNER_MAXENT, None, TRUE, None),
                          StructPerc(None)},
                   s \in DecodeSettings},
     fold    : FoldIds,
     decoded : BOOLEAN]

NoCall == [econf |-> None, fold |-> 0, decoded |-> FALSE]

(***************************************************************************)
(* State.                                                                  *)
(*                                                                         *)
(* fs gives every path of the two directories the links eval-current and   *)
(* scratch-current name its state: 0 absent, 1 created and partly written, *)
(* 2 written in full.  Directories of earlier campaigns are never named    *)
(* again by any path the command builds, so their contents are dropped     *)
(* when a fresh campaign moves the links.                                  *)
(***************************************************************************)
VARIABLES
    clock,       \* the value timestamp() returns
    dataState,   \* latest_tmp(): "none", "nofeat" (no features of the corpus), "ok"
    evalCur,     \* the stamp eval-current links to, 0 when there is no link
    scratchCur,  \* the stamp scratch-current links to, 0 when there is no link
    runs,        \* invocations started so far
    fs,          \* state of every path
    foldsJson,   \* the partition in the fold file ({} when it has none)
    index,       \* the content of every index.json
    pc,          \* where every process is in main
    args,        \* its command line
    exitMsg,     \* the message of its fatal exit, or that a job raised
    dfolds,      \* dconf.folds
    todo,        \* the folds the loop of _do_corpus has yet to run
    fold,        \* the fold _do_fold runs
    lst,         \* per learner_confs entry: 0 not yet asked, 1 skipped,
                 \* 2 dispatched, 3 attach model opened, 4 attach model
                 \* written and relate model opened, 5 returned
    dst,         \* per EVALUATIONS entry: 0 not yet asked, 1 skipped,
                 \* 2 dispatched, 3 returned
    post,        \* _post_decode calls begun and ended (2 per entry)
    written,     \* the paths the invocation has created or written
    entry,       \* what _do_fold found when it was entered: no model file
                 \* in the fold (clean), the report of the fold (rerun), and
                 \* the index of that report
    nreport,     \* calls of the report generator in the invocation
    corpus,      \* the corpus the loop of main is at, as an index
    declared,    \* the lists local.py declares
    evaluations, \* EVALUATIONS of local.py, once the module is loaded
    dcall,       \* decode.py: the arguments delayed_decode is called with,
                 \* and whether the decode output exists
    djobs        \* decode.py: what delayed_decode gave the jobs it returned
                 \* (None before the call)

vars == <<clock, dataState, evalCur, scratchCur, runs, fs, foldsJson, index,
          pc, args, exitMsg, dfolds, todo, fold, lst, dst, post, written,
          entry, nreport, corpus, declared, evaluations, dcall, djobs>>

Procs == {1, 2}

Args(start, resume, end, folds) ==
    [start |-> start, resume |-> resume, end |-> end, folds |-> folds]

\* the command lines the model tries; folds is None or the list after --folds
ArgSets ==
    {Args(FALSE, FALSE, FALSE, None), Args(TRUE, FALSE, FALSE, None),
     Args(FALSE, TRUE, FALSE, None), Args(FALSE, FALSE, TRUE, None)}
    \cup {Args(FALSE, FALSE, FALSE, <<f>>) : f \in FoldIds}

Terminal == {"idle", "done", "fatal", "failed", "crashed", "killed"}

NoEntry == [clean |-> FALSE, rerun |-> FALSE, index |-> NoIndex]

Init ==
    /\ clock = 1
    /\ dataState = "none"
    /\ evalCur = 0
    /\ scratchCur = 0
    /\ runs = 0
    /\ fs = [path \in Paths |-> 0]
    /\ foldsJson = [ds \in Datasets |-> {}]
    /\ index = [path \in IndexPaths |-> NoIndex]
    /\ pc = [p \in Procs |-> "idle"]
    /\ args = [p \in Procs |-> Args(FALSE, FALSE, FALSE, None)]
    /\ exitMsg = [p \in Procs |-> "none"]
    /\ dfolds = [p \in Procs |-> {}]
    /\ todo = [p \in Procs |-> << >>]
    /\ fold = [p \in Procs |-> 0]
    /\ lst = [p \in Procs |-> [i \in 1..NL |-> 0]]
    /\ dst = [p \in Procs |-> [i \in 1..NE |-> 0]]
    /\ post = [p \in Procs |-> 0]
    /\ written = [p \in Procs |-> {}]
    /\ entry = [p \in Procs |-> NoEntry]
    /\ nreport = [p \in Procs |-> 0]
    /\ corpus = [p \in Procs |-> 1]
    /\ declared = Declared
    /\ evaluations = [loaded |-> TRUE, list |-> EVALUATIONS]
    /\ dcall = NoCall
    /\ djobs = None

(***************************************************************************)
(* The environment: the clock, the gather command, a kill.                 *)
(***************************************************************************)
Idle == \A p \in Procs : pc[p] \in Terminal

\* timestamp() is read once per invocation, in _create_eval_dirs, and only
\* compared with the stamps of the directories that exist, so the clock only
\* needs to move between invocations and past a stamp that is in use
Tick ==
    /\ Idle
    /\ UNCHANGED <<dcall, djobs, declared, evaluations, corpus>>
    /\ evalCur = clock
    /\ clock < MaxStamp
    /\ clock' = clock + 1
    /\ UNCHANGED <<dataState, evalCur, scratchCur, runs, fs, foldsJson, index,
                   pc, args, exitMsg, dfolds, todo, fold, lst, dst, post,
                   written, entry, nreport>>

\* cmd/gather.py main: extract the features, then link the latest directory
\* (the extraction may leave no features for the corpus evaluate asks for)
Gather ==
    /\ Idle
    /\ UNCHANGED <<dcall, djobs, declared, evaluations, corpus>>
    /\ dataState = "none"
    /\ dataState' \in {"ok", "nofeat"}
    /\ UNCHANGED <<clock, evalCur, scratchCur, runs, fs, foldsJson, index,
                   pc, args, exitMsg, dfolds, todo, fold, lst, dst, post,
                   written, entry, nreport>>

\* the process ends without returning from main (an exception nothing
\* catches, or a kill): what it held in memory is gone
Die(p, how) ==
    /\ pc' = [pc EXCEPT ![p] = how]
    /\ dfolds' = [dfolds EXCEPT ![p] = {}]
    /\ todo' = [todo EXCEPT ![p] = << >>]
    /\ fold' = [fold EXCEPT ![p] = 0]
    /\ lst' = [lst EXCEPT ![p] = [i \in 1..NL |-> 0]]
    /\ dst' = [dst EXCEPT ![p] = [i \in 1..NE |-> 0]]
    /\ post' = [post EXCEPT ![p] = 0]
    /\ written' = [written EXCEPT ![p] = {}]
    /\ entry' = [entry EXCEPT ![p] = NoEntry]
    /\ nreport' = [nreport EXCEPT ![p] = 0]

\* the process is interrupted (no handler: it stops where it is)
Kill(p) ==
    /\ pc[p] \notin Terminal
    /\ UNCHANGED <<dcall, djobs, declared, evaluations, corpus>>
    /\ Die(p, "killed")
    /\ UNCHANGED <<clock, dataState, evalCur, scratchCur, runs, fs, foldsJson,
                   index, args, exitMsg>>

(***************************************************************************)
(* cmd/evaluate.py: main and _create_eval_dirs.                            *)
(***************************************************************************)
Write(path, v) == fs' = [fs EXCEPT ![path] = v]

Note(p, paths) == written' = [written EXCEPT ![p] = @ \cup paths]

\* sys.exit(message)
Fatal(p, msg) ==
    /\ pc' = [pc EXCEPT ![p] = "fatal"]
    /\ exitMsg' = [exitMsg EXCEPT ![p] = msg]

Goto(p, label) == pc' = [pc EXCEPT ![p] = label]

\* the corpus of the lconf that main builds in its loop
dataset(p) == declared.corpora[corpus[p]]

\* main: the loop over TRAINING_CORPORA takes the next corpus, or main returns
NextCorpus(p) ==
    IF corpus[p] < Len(declared.corpora)
    THEN Goto(p, "corpus") /\ corpus' = [corpus EXCEPT ![p] = @ + 1]
    ELSE Goto(p, "done") /\ UNCHANGED corpus

\* the evaluate command is invoked with command line a: a new process,
\* which holds nothing of an earlier one
Invoke(p, a) ==
    /\ pc[p] \in Terminal
    /\ UNCHANGED <<dcall, djobs, declared, evaluations>>
    /\ Goto(p, "main")
    /\ args' = [args EXCEPT ![p] = a]
    /\ exitMsg' = [exitMsg EXCEPT ![p] = "none"]
    /\ dfolds' = [dfolds EXCEPT ![p] = {}]
    /\ todo' = [todo EXCEPT ![p] = << >>]
    /\ fold' = [fold EXCEPT ![p] = 0]
    /\ lst' = [lst EXCEPT ![p] = [i \in 1..NL |-> 0]]
    /\ dst' = [dst EXCEPT ![p] = [i \in 1..NE |-> 0]]
    /\ post' = [post EXCEPT ![p] = 0]
    /\ written' = [written EXCEPT ![p] = {}]
    /\ entry' = [entry EXCEPT ![p] = NoEntry]
    /\ nreport' = [nreport EXCEPT ![p] = 0]
    /\ corpus' = [corpus EXCEPT ![p] = 1]
    /\ UNCHANGED <<clock, dataState, evalCur, scratchCur, fs, foldsJson, index>>

\* an invocation, of the MaxRuns a behaviour has
Start(p, a) ==
    /\ runs < MaxRuns
    /\ runs' = runs + 1
    /\ Invoke(p, a)

\* main: data_dir = latest_tmp(); if it does not exist, _exit_ungathered()
MainCheckData(p) ==
    /\ pc[p] = "main"
    /\ UNCHANGED <<dcall, djobs, declared, evaluations, corpus>>
    /\ IF dataState = "none"
       THEN Fatal(p, "No data to run experiments on")
       ELSE Goto(p, "dirs") /\ UNCHANGED exitMsg
    /\ UNCHANGED <<clock, dataState, evalCur, scratchCur, runs, fs, foldsJson,
                   index, args, dfolds, todo, fold, lst, dst, post, written,
                   entry, nreport>>

\* args.resume or args.end or args.folds is not None
Resuming(a) == a.resume \/ a.end \/ a.folds # None

\* (variant: fatal only when both links are missing)
NoCurrent_and == evalCur = 0 /\ scratchCur = 0

\* not fp.exists(eval_current) or not fp.exists(scratch_current)
NoCurrent == evalCur = 0 \/ scratchCur = 0

\* (variant: the directory of the timestamp is never found)
EvalDirExists_never == FALSE

\* fp.exists(eval_dir), for the eval_dir named after timestamp()
EvalDirExists == evalCur = clock

\* _create_eval_dirs up to the creation of the eval directory: makedirs,
\* _link_data_files and force_symlink, or one of the two fatal exits
CreateEvalDirs(p) ==
    /\ pc[p] = "dirs"
    /\ UNCHANGED <<dcall, djobs, declared, evaluations, corpus>>
    /\ IF Resuming(args[p])
       THEN /\ IF NoCurrent
               THEN Fatal(p, "No currently running evaluation to resume!")
               ELSE Goto(p, "versions") /\ UNCHANGED exitMsg
            /\ UNCHANGED <<evalCur, fs, foldsJson, written>>
       ELSE IF ~EvalDirExists
       THEN /\ evalCur' = clock
            /\ fs' = [path \in Paths |->
                        IF path = _edu_input_path(Dataset)
                        THEN (IF dataState = "ok" THEN 2 ELSE 0)
                        ELSE IF path \in EvalPaths THEN 0 ELSE fs[path]]
            /\ foldsJson' = [ds \in Datasets |-> {}]
            /\ Note(p, IF dataState = "ok" THEN {_edu_input_path(Dataset)} ELSE {})
            /\ Goto(p, "scratch")
            /\ UNCHANGED exitMsg
       ELSE /\ Fatal(p, "Try again in literally one second")
            /\ UNCHANGED <<evalCur, fs, foldsJson, written>>
    /\ UNCHANGED <<clock, dataState, scratchCur, runs, index, args, dfolds,
                   todo, fold, lst, dst, post, entry, nreport>>

\* _create_eval_dirs, the scratch directory: makedirs and force_symlink
CreateScratchDir(p) ==
    /\ pc[p] = "scratch"
    /\ UNCHANGED <<dcall, djobs, declared, evaluations, corpus>>
    /\ IF scratchCur # clock
       THEN /\ scratchCur' = clock
            /\ fs' = [path \in Paths |->
                        IF path \in ScratchPaths THEN 0 ELSE fs[path]]
            /\ index' = [path \in IndexPaths |-> NoIndex]
       ELSE UNCHANGED <<scratchCur, fs, index>>
    /\ Goto(p, "versions")
    /\ UNCHANGED <<clock, dataState, evalCur, runs, foldsJson, args, exitMsg,
                   dfolds, todo, fold, lst, dst, post, written, entry, nreport>>

\* (variant: main goes on to the corpora whatever the command line)
StartOnly_never(a) == FALSE

\* main: if args.start
StartOnly(a) == a.start

\* main: versions.txt is written, and --start returns
WriteVersions(p) ==
    /\ pc[p] = "versions"
    /\ UNCHANGED <<dcall, djobs, declared, evaluations, corpus>>
    /\ Write(VersionsPath, 2)
    /\ Note(p, {VersionsPath})
    /\ Goto(p, IF StartOnly(args[p]) THEN "done" ELSE "corpus")
    /\ UNCHANGED <<clock, dataState, evalCur, scratchCur, runs, foldsJson,
                   index, args, exitMsg, dfolds, todo, fold, lst, dst, post,
                   entry, nreport>>


(***************************************************************************)
(* cmd/evaluate.py: _do_corpus.                                            *)
(***************************************************************************)
\* _do_corpus: the gathered data must be in the eval directory
DoCorpusCheck(p) ==
    /\ pc[p] = "corpus"
    /\ UNCHANGED <<dcall, djobs, declared, evaluations, corpus>>
    /\ IF fs[_edu_input_path(dataset(p))] = 0
       THEN Fatal(p, "No data to run experiments on")
       ELSE Goto(p, "enfold") /\ UNCHANGED exitMsg
    /\ UNCHANGED <<clock, dataState, evalCur, scratchCur, runs, fs, foldsJson,
                   index, args, dfolds, todo, fold, lst, dst, post, written,
                   entry, nreport>>

\* _generate_fold_file, entering FakeEnfoldArgs: the --output file is opened
\* for writing
OpenFoldFile(p) ==
    /\ pc[p] = "enfold"
    /\ UNCHANGED <<dcall, djobs, declared, evaluations, corpus>>
    /\ Write(FoldFilePath(dataset(p)), 1)
    /\ foldsJson' = [foldsJson EXCEPT ![dataset(p)] = {}]
    /\ Note(p, {FoldFilePath(dataset(p))})
    /\ Goto(p, "enfold2")
    /\ UNCHANGED <<clock, dataState, evalCur, scratchCur, runs, index, args,
                   exitMsg, dfolds, todo, fold, lst, dst, post, entry, nreport>>

\* _generate_fold_file: att.enfold.main_for_harness writes a partition
_generate_fold_file(p) ==
    /\ pc[p] = "enfold2"
    /\ UNCHANGED <<dcall, djobs, declared, evaluations, corpus>>
    /\ \E part \in Partitions :
          foldsJson' = [foldsJson EXCEPT ![dataset(p)] = part]
    /\ Write(FoldFilePath(dataset(p)), 2)
    /\ Goto(p, "loadfolds")
    /\ UNCHANGED <<clock, dataState, evalCur, scratchCur, runs, index, args,
                   exitMsg, dfolds, todo, fold, lst, dst, post, written, entry,
                   nreport>>

\* (variant: without --folds the loop runs one fold only)
FoldSet_first(a, folds) ==
    IF a.end THEN {<< >>}
    ELSE IF a.folds # None THEN {a.folds}
    ELSE {<<f>> : f \in FoldValues(folds)}

\* (variant: --folds is ignored)
FoldSet_all(a, folds) ==
    IF a.end THEN {<< >>} ELSE Orders(FoldValues(folds))

\* (variant: --end is ignored)
FoldSet_noend(a, folds) ==
    IF a.folds # None THEN {a.folds} ELSE Orders(FoldValues(folds))

\* foldset of _do_corpus
FoldSet(a, folds) ==
    IF a.end THEN {<< >>}
    ELSE IF a.folds # None THEN {a.folds}
    ELSE Orders(FoldValues(folds))

\* _do_corpus: json.load of the fold file (which raises on a file that is
\* being written), then the choice of the folds to run
LoadFolds(p) ==
    /\ pc[p] = "loadfolds"
    /\ UNCHANGED <<dcall, djobs, declared, evaluations, corpus>>
    /\ IF fs[FoldFilePath(dataset(p))] # 2
       THEN Die(p, "crashed")
       ELSE /\ dfolds' = [dfolds EXCEPT ![p] = foldsJson[dataset(p)]]
            /\ \E order \in FoldSet(args[p], foldsJson[dataset(p)]) :
                  todo' = [todo EXCEPT ![p] = order]
            /\ Goto(p, "foldloop")
            /\ UNCHANGED <<fold, lst, dst, post, written, entry, nreport>>
    /\ UNCHANGED <<clock, dataState, evalCur, scratchCur, runs, fs, foldsJson,
                   index, args, exitMsg>>

ModelPaths(ds, i, f) ==
    {_eval_model_path(ds, EVALUATIONS[i], f, "attach"),
     _eval_model_path(ds, EVALUATIONS[i], f, "relate")}

\* _do_corpus: the next fold of the loop (and the makedirs that opens
\* _do_fold), or the end of the loop
NextFold(p) ==
    /\ pc[p] = "foldloop"
    /\ UNCHANGED <<dcall, djobs, declared, evaluations>>
    /\ IF todo[p] # << >>
       THEN LET f == Head(todo[p]) IN
            /\ fold' = [fold EXCEPT ![p] = f]
            /\ todo' = [todo EXCEPT ![p] = Tail(@)]
            /\ Write(_fold_dir_path(f), 2)
            /\ Note(p, IF fs[_fold_dir_path(f)] = 0 THEN {_fold_dir_path(f)} ELSE {})
            /\ lst' = [lst EXCEPT ![p] = [i \in 1..NL |-> 0]]
            /\ dst' = [dst EXCEPT ![p] = [i \in 1..NE |-> 0]]
            /\ post' = [post EXCEPT ![p] = 0]
            /\ entry' = [entry EXCEPT ![p] =
                  [clean |-> \A i \in 1..NE : \A path \in ModelPaths(dataset(p), i, f) : fs[path] = 0,
                   rerun |-> fs[_report_dir(dataset(p), _fold_dir_basename(f))] = 2,
                   index |-> index[IndexPath(_fold_dir_basename(f))]]]
            /\ Goto(p, "learn")
            /\ UNCHANGED corpus
       ELSE /\ IF args[p].folds = None
               THEN Goto(p, "gindex") /\ UNCHANGED corpus
               ELSE NextCorpus(p)
            /\ UNCHANGED <<fold, todo, fs, written, lst, dst, post, entry>>
    /\ UNCHANGED <<clock, dataState, evalCur, scratchCur, runs, foldsJson,
                   index, args, exitMsg, dfolds, nreport>>

(***************************************************************************)
(* cmd/evaluate.py: _do_fold.  The two job lists are generators: joblib    *)
(* asks for the next job while earlier jobs run, so a call of              *)
(* _delayed_learn or _delayed_decode may come before or after any step of  *)
(* the jobs dispatched before it.                                          *)
(***************************************************************************)
\* the next entry the generator yields
NextIdx(s) == CHOOSE i \in DOMAIN s : s[i] = 0 /\ \A j \in DOMAIN s : j < i => s[j] # 0

\* (variant: one model file is enough)
ModelsExist_any(ds, i, f) == \E path \in ModelPaths(ds, i, f) : fs[path] # 0

\* _delayed_learn: both model files exist
ModelsExist(ds, i, f) == \A path \in ModelPaths(ds, i, f) : fs[path] # 0

_delayed_learn(p) ==
    /\ pc[p] = "learn"
    /\ UNCHANGED <<dcall, djobs, declared, evaluations, corpus>>
    /\ \E i \in 1..NL : lst[p][i] = 0
    /\ LET i == NextIdx(lst[p]) IN
       lst' = [lst EXCEPT ![p][i] =
                  IF ModelsExist(dataset(p), learner_confs[i], fold[p]) THEN 1 ELSE 2]
    /\ UNCHANGED <<clock, dataState, evalCur, scratchCur, runs, fs, foldsJson,
                   index, pc, args, exitMsg, dfolds, todo, fold, dst, post,
                   written, entry, nreport>>

\* a learn job: att.learn writes the attachment model, then the relation model
LearnJob(p, i) ==
    /\ pc[p] = "learn"
    /\ UNCHANGED <<dcall, djobs, declared, evaluations, corpus>>
    /\ lst[p][i] \in {2, 3, 4}
    /\ LET a == _eval_model_path(dataset(p), EVALUATIONS[learner_confs[i]], fold[p], "attach")
           r == _eval_model_path(dataset(p), EVALUATIONS[learner_confs[i]], fold[p], "relate")
       IN /\ fs' = IF lst[p][i] = 2 THEN [fs EXCEPT ![a] = 1]
                   ELSE IF lst[p][i] = 3 THEN [fs EXCEPT ![a] = 2, ![r] = 1]
                   ELSE [fs EXCEPT ![r] = 2]
          /\ Note(p, IF lst[p][i] = 2 THEN {a} ELSE {r})
    /\ lst' = [lst EXCEPT ![p][i] = @ + 1]
    /\ UNCHANGED <<clock, dataState, evalCur, scratchCur, runs, foldsJson,
                   index, pc, args, exitMsg, dfolds, todo, fold, dst, post,
                   entry, nreport>>

\* (variant: the exception is caught and _do_fold goes on to its report)
JobRaised_caught(p) ==
    /\ Goto(p, "findex")
    /\ UNCHANGED <<dfolds, todo, fold, lst, dst, post, written, entry, nreport>>

\* what Parallel does when a job raises: the exception leaves _do_fold,
\* _do_corpus and main
JobRaised(p) == Die(p, "failed")

\* a learn job raises
LearnJobFails(p, i) ==
    /\ pc[p] = "learn"
    /\ UNCHANGED <<dcall, djobs, declared, evaluations, corpus>>
    /\ lst[p][i] \in {2, 3, 4}
    /\ JobRaised(p)
    /\ exitMsg' = [exitMsg EXCEPT ![p] = "job raised"]
    /\ UNCHANGED <<clock, dataState, evalCur, scratchCur, runs, fs, foldsJson,
                   index, args>>

\* (variant: the batch returns once every entry was asked for)
LearnReturned_asked(p) == \A i \in 1..NL : lst[p][i] # 0

\* Parallel(...)(learner_jobs) returns: every entry was asked for and every
\* dispatched job has returned
LearnReturned(p) == \A i \in 1..NL : lst[p][i] \in {1, 5}

LearnDone(p) ==
    /\ pc[p] = "learn"
    /\ UNCHANGED <<dcall, djobs, declared, evaluations, corpus>>
    /\ LearnReturned(p)
    /\ Goto(p, "decode")
    /\ UNCHANGED <<clock, dataState, evalCur, scratchCur, runs, fs, foldsJson,
                   index, args, exitMsg, dfolds, todo, fold, lst, dst, post,
                   written, entry, nreport>>

\* (variant: the test is made on the basename, which names no file)
OutputExists_basename(i, f) == FALSE

\* (variant: the test is made on the outputs the decode job leaves)
OutputExists_parts(i, f) == fs[DecodePartsPath(EVALUATIONS[i], f)] # 0

\* fp.exists(_decode_output_path(lconf, econf, fold))
OutputExists(i, f) == fs[_decode_output_path(EVALUATIONS[i], f)] # 0

\* _delayed_decode: skip when the output exists; else load the models (a
\* missing model file raises, a model file cut short raises or loads) and
\* dispatch
_delayed_decode(p) ==
    /\ pc[p] = "decode"
    /\ UNCHANGED <<dcall, djobs, declared, evaluations, corpus>>
    /\ \E i \in 1..NE : dst[p][i] = 0
    /\ LET i == NextIdx(dst[p])
           models == {fs[path] : path \in ModelPaths(dataset(p), i, fold[p])}
           rest == <<pc, dfolds, todo, fold, lst, post, written, entry, nreport>>
       IN IF OutputExists(i, fold[p])
          THEN dst' = [dst EXCEPT ![p][i] = 1] /\ UNCHANGED rest
          ELSE IF 0 \in models
          THEN Die(p, "crashed")
          ELSE \E loaded \in (IF 1 \in models THEN BOOLEAN ELSE {TRUE}) :
                  IF loaded
                  THEN dst' = [dst EXCEPT ![p][i] = 2] /\ UNCHANGED rest
                  ELSE Die(p, "crashed")
    /\ UNCHANGED <<clock, dataState, evalCur, scratchCur, runs, fs, foldsJson,
                   index, args, exitMsg>>

\* a decode job writes its per-group outputs and returns
DecodeJob(p, i) ==
    /\ pc[p] = "decode"
    /\ UNCHANGED <<dcall, djobs, declared, evaluations, corpus>>
    /\ dst[p][i] = 2
    /\ Write(DecodePartsPath(EVALUATIONS[i], fold[p]), 2)
    /\ Note(p, {DecodePartsPath(EVALUATIONS[i], fold[p])})
    /\ dst' = [dst EXCEPT ![p][i] = 3]
    /\ UNCHANGED <<clock, dataState, evalCur, scratchCur, runs, foldsJson,
                   index, pc, args, exitMsg, dfolds, todo, fold, lst, post,
                   entry, nreport>>

\* a decode job raises
DecodeJobFails(p, i) ==
    /\ pc[p] = "decode"
    /\ UNCHANGED <<dcall, djobs, declared, evaluations, corpus>>
    /\ dst[p][i] = 2
    /\ JobRaised(p)
    /\ exitMsg' = [exitMsg EXCEPT ![p] = "job raised"]
    /\ UNCHANGED <<clock, dataState, evalCur, scratchCur, runs, fs, foldsJson,
                   index, args>>

\* Parallel(...)(decoder_jobs) returns
DecodeReturned(p) == \A i \in 1..NE : dst[p][i] \in {1, 3}

DecodeDone(p) ==
    /\ pc[p] = "decode"
    /\ UNCHANGED <<dcall, djobs, declared, evaluations, corpus>>
    /\ DecodeReturned(p)
    /\ Goto(p, "post")
    /\ UNCHANGED <<clock, dataState, evalCur, scratchCur, runs, fs, foldsJson,
                   index, args, exitMsg, dfolds, todo, fold, lst, dst, post,
                   written, entry, nreport>>

\* _post_decode of the next configuration: concatenate_outputs opens the
\* output file, then has joined the per-group outputs into it
_post_decode(p) ==
    /\ pc[p] = "post"
    /\ UNCHANGED <<dcall, djobs, declared, evaluations, corpus>>
    /\ post[p] < 2 * NE
    /\ LET out == _decode_output_path(EVALUATIONS[(post[p] \div 2) + 1], fold[p])
       IN /\ Write(out, IF post[p] % 2 = 0 THEN 1 ELSE 2)
          /\ Note(p, {out})
    /\ post' = [post EXCEPT ![p] = @ + 1]
    /\ UNCHANGED <<clock, dataState, evalCur, scratchCur, runs, foldsJson,
                   index, pc, args, exitMsg, dfolds, todo, fold, lst, dst,
                   entry, nreport>>

\* the loop over EVALUATIONS of _do_fold has ended
PostDone(p) ==
    /\ pc[p] = "post"
    /\ UNCHANGED <<dcall, djobs, declared, evaluations, corpus>>
    /\ post[p] = 2 * NE
    /\ Goto(p, "findex")
    /\ UNCHANGED <<clock, dataState, evalCur, scratchCur, runs, fs, foldsJson,
                   index, args, exitMsg, dfolds, todo, fold, lst, dst, post,
                   written, entry, nreport>>

\* _mk_fold_report and _mk_report: the index of the fold is dumped
FoldIndex(p) ==
    /\ pc[p] = "findex"
    /\ UNCHANGED <<dcall, djobs, declared, evaluations, corpus>>
    /\ LET path == IndexPath(_fold_dir_basename(fold[p])) IN
       /\ index' = [index EXCEPT ![path] =
                       mk_index({<<fold[p], <<".">>>>}, Configurations)]
       /\ Write(path, 2)
       /\ Note(p, {path})
    /\ Goto(p, "freport")
    /\ UNCHANGED <<clock, dataState, evalCur, scratchCur, runs, foldsJson,
                   args, exitMsg, dfolds, todo, fold, lst, dst, post, entry,
                   nreport>>

\* _mk_report: att.report.main_for_harness writes the report of the fold
FoldReport(p) ==
    /\ pc[p] = "freport"
    /\ UNCHANGED <<dcall, djobs, declared, evaluations, corpus>>
    /\ Write(_report_dir(dataset(p), _fold_dir_basename(fold[p])), 2)
    /\ Note(p, {_report_dir(dataset(p), _fold_dir_basename(fold[p]))})
    /\ nreport' = [nreport EXCEPT ![p] = @ + 1]
    /\ Goto(p, "foldloop")
    /\ UNCHANGED <<clock, dataState, evalCur, scratchCur, runs, foldsJson,
                   index, args, exitMsg, dfolds, todo, fold, lst, dst, post,
                   entry>>

(***************************************************************************)
(* cmd/evaluate.py: _mk_global_report.                                     *)
(***************************************************************************)
GlobalIndex(p) ==
    /\ pc[p] = "gindex"
    /\ UNCHANGED <<dcall, djobs, declared, evaluations, corpus>>
    /\ index' = [index EXCEPT ![IndexPath(None)] =
                    mk_index({<<f, _fold_dir_basename(f)>> : f \in FoldValues(dfolds[p])},
                             Configurations)]
    /\ Write(IndexPath(None), 2)
    /\ Note(p, {IndexPath(None)})
    /\ Goto(p, "greport")
    /\ UNCHANGED <<clock, dataState, evalCur, scratchCur, runs, foldsJson,
                   args, exitMsg, dfolds, todo, fold, lst, dst, post, entry,
                   nreport>>

GlobalReport(p) ==
    /\ pc[p] = "greport"
    /\ UNCHANGED <<dcall, djobs, declared, evaluations, corpus>>
    /\ Write(_report_dir(dataset(p), None), 2)
    /\ Note(p, {_report_dir(dataset(p), None)})
    /\ nreport' = [nreport EXCEPT ![p] = @ + 1]
    /\ Goto(p, "gcopy")
    /\ UNCHANGED <<clock, dataState, evalCur, scratchCur, runs, foldsJson,
                   index, args, exitMsg, dfolds, todo, fold, lst, dst, post,
                   entry>>

\* shutil.copytree(args.output, final_report_dir(dataset(p))) raises when the
\* destination exists
CopyReport(p) ==
    /\ pc[p] = "gcopy"
    /\ UNCHANGED <<dcall, djobs, declared, evaluations>>
    /\ IF fs[final_report_dir(dataset(p))] # 0
       THEN Die(p, "crashed") /\ UNCHANGED <<fs, corpus>>
       ELSE /\ Write(final_report_dir(dataset(p)), 2)
            /\ Note(p, {final_report_dir(dataset(p))})
            /\ NextCorpus(p)
            /\ UNCHANGED <<dfolds, todo, fold, lst, dst, post, entry, nreport>>
    /\ UNCHANGED <<clock, dataState, evalCur, scratchCur, runs, foldsJson,
                   index, args, exitMsg>>

(***************************************************************************)
(* Specifications.                                                         *)
(***************************************************************************)
Step(p) ==
    \/ MainCheckData(p)
    \/ CreateEvalDirs(p)
    \/ CreateScratchDir(p)
    \/ WriteVersions(p)
    \/ DoCorpusCheck(p)
    \/ OpenFoldFile(p)
    \/ _generate_fold_file(p)
    \/ LoadFolds(p)
    \/ NextFold(p)
    \/ _delayed_learn(p)
    \/ \E i \in 1..NL : LearnJob(p, i)
    \/ LearnDone(p)
    \/ _delayed_decode(p)
    \/ \E i \in 1..NE : DecodeJob(p, i)
    \/ DecodeDone(p)
    \/ _post_decode(p)
    \/ PostDone(p)
    \/ FoldIndex(p)
    \/ FoldReport(p)
    \/ GlobalIndex(p)
    \/ GlobalReport(p)
    \/ CopyReport(p)

Failure(p) ==
    \/ \E i \in 1..NL : LearnJobFails(p, i)
    \/ \E i \in 1..NE : DecodeJobFails(p, i)
    \/ Kill(p)

\* one process at a time, invoked again and again with any command line
Next ==
    \/ Tick
    \/ Gather
    \/ \E a \in ArgSets : Start(1, a)
    \/ Step(1)
    \/ Failure(1)

Spec == Init /\ [][Next]_vars

(***************************************************************************)
(* Cluster mode: a campaign that --start has created, and two processes    *)
(* invoked each with its own --folds, running at the same time.            *)
(***************************************************************************)
InitCluster ==
    /\ clock = 1
    /\ dataState = "ok"
    /\ evalCur = 1
    /\ scratchCur = 1
    /\ runs = 0
    /\ fs = [path \in Paths |->
                IF path \in {_edu_input_path(Dataset), VersionsPath} THEN 2 ELSE 0]
    /\ foldsJson = [ds \in Datasets |-> {}]
    /\ index = [path \in IndexPaths |-> NoIndex]
    /\ pc = [p \in Procs |-> "idle"]
    /\ args = [p \in Procs |-> Args(FALSE, FALSE, FALSE, None)]
    /\ exitMsg = [p \in Procs |-> "none"]
    /\ dfolds = [p \in Procs |-> {}]
    /\ todo = [p \in Procs |-> << >>]
    /\ fold = [p \in Procs |-> 0]
    /\ lst = [p \in Procs |-> [i \in 1..NL |-> 0]]
    /\ dst = [p \in Procs |-> [i \in 1..NE |-> 0]]
    /\ post = [p \in Procs |-> 0]
    /\ written = [p \in Procs |-> {}]
    /\ entry = [p \in Procs |-> NoEntry]
    /\ nreport = [p \in Procs |-> 0]
    /\ corpus = [p \in Procs |-> 1]
    /\ declared = Declared
    /\ evaluations = [loaded |-> TRUE, list |-> EVALUATIONS]
    /\ dcall = NoCall
    /\ djobs = None

\* process p is invoked with --folds p-1
StartCluster(p) == pc[p] = "idle" /\ Start(p, Args(FALSE, FALSE, FALSE, <<p - 1>>))

NextCluster ==
    \E p \in Procs :
        \/ StartCluster(p)
        \/ MainCheckData(p)
        \/ CreateEvalDirs(p)
        \/ WriteVersions(p)
        \/ DoCorpusCheck(p)
        \/ OpenFoldFile(p)
        \/ _generate_fold_file(p)
        \/ LoadFolds(p)
        \/ NextFold(p)
        \/ _delayed_learn(p)
        \/ \E i \in 1..NL : LearnJob(p, i)
        \/ LearnDone(p)
        \/ _delayed_decode(p)
        \/ \E i \in 1..NE : DecodeJob(p, i)
        \/ DecodeDone(p)
        \/ _post_decode(p)
        \/ PostDone(p)
        \/ FoldIndex(p)
        \/ FoldReport(p)

SpecCluster == InitCluster /\ [][NextCluster]_vars

(***************************************************************************)
(* Any --folds: invocations on the campaign that --start has created, each *)
(* with one fold id after --folds, which the partition may not have.       *)
(***************************************************************************)
StartFolds(p) == \E f \in ArgFolds : Start(p, Args(FALSE, FALSE, FALSE, <<f>>))

NextFolds ==
    \/ StartFolds(1)
    \/ MainCheckData(1)
    \/ CreateEvalDirs(1)
    \/ WriteVersions(1)
    \/ DoCorpusCheck(1)
    \/ OpenFoldFile(1)
    \/ _generate_fold_file(1)
    \/ LoadFolds(1)
    \/ NextFold(1)
    \/ _delayed_learn(1)
    \/ \E i \in 1..NL : LearnJob(1, i)
    \/ LearnDone(1)
    \/ _delayed_decode(1)
    \/ \E i \in 1..NE : DecodeJob(1, i)
    \/ DecodeDone(1)
    \/ _post_decode(1)
    \/ PostDone(1)
    \/ FoldIndex(1)
    \/ FoldReport(1)

SpecFolds == InitCluster /\ [][NextFolds]_vars

(***************************************************************************)
(* Two corpora: TRAINING_CORPORA lists a second corpus after the one that  *)
(* the gather command extracts (gather.py extracts TRAINING_CORPUS only).  *)
(***************************************************************************)
InitCorpora ==
    /\ clock = 1
    /\ dataState = "none"
    /\ evalCur = 0
    /\ scratchCur = 0
    /\ runs = 0
    /\ fs = [path \in Paths |-> 0]
    /\ foldsJson = [ds \in Datasets |-> {}]
    /\ index = [path \in IndexPaths |-> NoIndex]
    /\ pc = [p \in Procs |-> "idle"]
    /\ args = [p \in Procs |-> Args(FALSE, FALSE, FALSE, None)]
    /\ exitMsg = [p \in Procs |-> "none"]
    /\ dfolds = [p \in Procs |-> {}]
    /\ todo = [p \in Procs |-> << >>]
    /\ fold = [p \in Procs |-> 0]
    /\ lst = [p \in Procs |-> [i \in 1..NL |-> 0]]
    /\ dst = [p \in Procs |-> [i \in 1..NE |-> 0]]
    /\ post = [p \in Procs |-> 0]
    /\ written = [p \in Procs |-> {}]
    /\ entry = [p \in Procs |-> NoEntry]
    /\ nreport = [p \in Procs |-> 0]
    /\ corpus = [p \in Procs |-> 1]
    /\ declared = [Declared EXCEPT !.corpora = <<Dataset, Dataset2>>]
    /\ evaluations = [loaded |-> TRUE, list |-> EVALUATIONS]
    /\ dcall = NoCall
    /\ djobs = None

\* one process at a time, and no job fails
NextCorpora ==
    \/ Tick
    \/ Gather
    \/ \E a \in ArgSets : Start(1, a)
    \/ Step(1)

SpecCorpora == InitCorpora /\ [][NextCorpora]_vars

(***************************************************************************)
(* The generator of local.py over any declared lists: the module is loaded *)
(* with lists of at most MaxDecl entries drawn from the pools below, which *)
(* hold the entries the model keeps and entries of the same kinds.         *)
(***************************************************************************)
RECURSIVE Lists(_, _)
\* the lists of at most n distinct entries of pool
Lists(pool, n) ==
    IF n = 0 THEN {<< >>}
    ELSE {<< >>} \cup UNION {{<<x>> \o l : l \in Lists(pool \ {x}, n - 1)} : x \in pool}

\* plain learners: oracle, maxent, a perceptron with the maxent relation
\* learner (no predict_proba), and a second maxent keyed 'maxent-l2'
LearnerPool ==
    {LearnerConfig(<<"oracle">>, None, TRUE, None),
     LearnerConfig(LEARNER_MAXENT, None, TRUE, None),
     LearnerConfig(<<"perc">>, LEARNER_MAXENT, FALSE, None),
     LearnerConfig(<<"maxent", "-", "l2">>, None, TRUE, None)}

StructuredPool == {"struct-perc", "struct-pa"}

CorePool == {<<"local">>, <<"mst">>}

\* settings: the two the model keeps, AD.L_joint of the declared list,
\* post-label decoding with an intra-sentential oracle, and post-label
\* decoding keyed 'l2-AD.L_post'
SettingsPool ==
    {Settings(<<"AD.L_joint_intra_heads">>, "joint",
              IntraFlag("heads", FALSE, FALSE)),
     Settings(<<"AD.L_joint">>, "joint", NoIntra),
     Settings(<<"AD.L_post">>, "post_label", NoIntra),
     Settings(<<"AD.L_post_intra_oracle">>, "post_label",
              IntraFlag("soft", TRUE, FALSE)),
     Settings(<<"l2", "-", "AD.L_post">>, "post_label", NoIntra)}

Declarations ==
    [local      : Lists(LearnerPool, MaxDecl),
     structured : Lists(StructuredPool, MaxDecl),
     core       : Lists(CorePool, MaxDecl),
     settings   : Lists(SettingsPool, MaxDecl),
     corpora    : {TRAINING_CORPORA}]

InitConfig ==
    /\ clock = 1
    /\ dataState = "none"
    /\ evalCur = 0
    /\ scratchCur = 0
    /\ runs = 0
    /\ fs = [path \in Paths |-> 0]
    /\ foldsJson = [ds \in Datasets |-> {}]
    /\ index = [path \in IndexPaths |-> NoIndex]
    /\ pc = [p \in Procs |-> "idle"]
    /\ args = [p \in Procs |-> Args(FALSE, FALSE, FALSE, None)]
    /\ exitMsg = [p \in Procs |-> "none"]
    /\ dfolds = [p \in Procs |-> {}]
    /\ todo = [p \in Procs |-> << >>]
    /\ fold = [p \in Procs |-> 0]
    /\ lst = [p \in Procs |-> [i \in 1..NL |-> 0]]
    /\ dst = [p \in Procs |-> [i \in 1..NE |-> 0]]
    /\ post = [p \in Procs |-> 0]
    /\ written = [p \in Procs |-> {}]
    /\ entry = [p \in Procs |-> NoEntry]
    /\ nreport = [p \in Procs |-> 0]
    /\ corpus = [p \in Procs |-> 1]
    /\ declared \in Declarations
    /\ evaluations = [loaded |-> FALSE, list |-> << >>]
    /\ dcall = NoCall
    /\ djobs = None

\* import of local.py: EVALUATIONS = _mk_evaluations()
LoadLocal ==
    /\ ~evaluations.loaded
    /\ evaluations' = [loaded |-> TRUE, list |-> _mk_evaluations(declared)]
    /\ UNCHANGED <<clock, dataState, evalCur, scratchCur, runs, fs, foldsJson,
                   index, pc, args, exitMsg, dfolds, todo, fold, lst, dst,
                   post, written, entry, nreport, corpus, declared, dcall,
                   djobs>>

NextConfig == LoadLocal

SpecConfig == InitConfig /\ [][NextConfig]_vars

(***************************************************************************)
(* decode.py: delayed_decode called once, for any configuration, any fold  *)
(* and either state of the decode output.                                  *)
(***************************************************************************)
InitDecode ==
    /\ clock = 1
    /\ dataState = "none"
    /\ evalCur = 0
    /\ scratchCur = 0
    /\ runs = 0
    /\ fs = [path \in Paths |-> 0]
    /\ foldsJson = [ds \in Datasets |-> {}]
    /\ index = [path \in IndexPaths |-> NoIndex]
    /\ pc = [p \in Procs |-> "idle"]
    /\ args = [p \in Procs |-> Args(FALSE, FALSE, FALSE, None)]
    /\ exitMsg = [p \in Procs |-> "none"]
    /\ dfolds = [p \in Procs |-> {}]
    /\ todo = [p \in Procs |-> << >>]
    /\ fold = [p \in Procs |-> 0]
    /\ lst = [p \in Procs |-> [i \in 1..NL |-> 0]]
    /\ dst = [p \in Procs |-> [i \in 1..NE |-> 0]]
    /\ post = [p \in Procs |-> 0]
    /\ written = [p \in Procs |-> {}]
    /\ entry = [p \in Procs |-> NoEntry]
    /\ nreport = [p \in Procs |-> 0]
    /\ corpus = [p \in Procs |-> 1]
    /\ declared = Declared
    /\ evaluations = [loaded |-> TRUE, list |-> EVALUATIONS]
    /\ dcall \in DecodeCalls
    /\ djobs = None

\* delayed_decode: no job when the output exists (_say_if_decoded); else the
\* jobs of ath_decode.jobs, which are given the models
delayed_decode ==
    /\ djobs = None
    /\ djobs' = IF dcall.decoded
                THEN [jobs |-> FALSE, models |-> None, read |-> {}]
                ELSE LET m == delayed_decode_models(dcall.econf, dcall.fold)
                     IN [jobs |-> TRUE, models |-> m.models, read |-> m.read]
    /\ UNCHANGED <<clock, dataState, evalCur, scratchCur, runs, fs, foldsJson,
                   index, pc, args, exitMsg, dfolds, todo, fold, lst, dst,
                   post, written, entry, nreport, corpus, declared,
                   evaluations, dcall>>

NextDecode == delayed_decode

SpecDecode == InitDecode /\ [][NextDecode]_vars

(***************************************************************************)
(* Resuming: one campaign on gathered data, run by one process at a time.  *)
(* The command is invoked once without flags, and after every invocation   *)
(* that ended in an exception it is invoked again with --resume, as often  *)
(* as it takes (runs counts the invocations up to MaxRuns and stays        *)
(* there).  Jobs raise finitely often: only in an invocation before the    *)
(* MaxRuns-th.  The process keeps running and the user keeps resuming:     *)
(* weak fairness of every step but the failures.                           *)
(***************************************************************************)
InitResume ==
    /\ clock = 1
    /\ dataState = "ok"
    /\ evalCur = 0
    /\ scratchCur = 0
    /\ runs = 0
    /\ fs = [path \in Paths |-> 0]
    /\ foldsJson = [ds \in Datasets |-> {}]
    /\ index = [path \in IndexPaths |-> NoIndex]
    /\ pc = [p \in Procs |-> "idle"]
    /\ args = [p \in Procs |-> Args(FALSE, FALSE, FALSE, None)]
    /\ exitMsg = [p \in Procs |-> "none"]
    /\ dfolds = [p \in Procs |-> {}]
    /\ todo = [p \in Procs |-> << >>]
    /\ fold = [p \in Procs |-> 0]
    /\ lst = [p \in Procs |-> [i \in 1..NL |-> 0]]
    /\ dst = [p \in Procs |-> [i \in 1..NE |-> 0]]
    /\ post = [p \in Procs |-> 0]
    /\ written = [p \in Procs |-> {}]
    /\ entry = [p \in Procs |-> NoEntry]
    /\ nreport = [p \in Procs |-> 0]
    /\ corpus = [p \in Procs |-> 1]
    /\ declared = Declared
    /\ evaluations = [loaded |-> TRUE, list |-> EVALUATIONS]
    /\ dcall = NoCall
    /\ djobs = None

FirstRun == runs = 0 /\ Start(1, Args(FALSE, FALSE, FALSE, None))

Reinvoke ==
    /\ pc[1] \in {"failed", "crashed"}
    /\ Invoke(1, Args(FALSE, TRUE, FALSE, None))
    /\ runs' = IF runs < MaxRuns THEN runs + 1 ELSE runs

JobFailure ==
    /\ runs < MaxRuns
    /\ \/ \E i \in 1..NL : LearnJobFails(1, i)
       \/ \E i \in 1..NE : DecodeJobFails(1, i)

Progress == FirstRun \/ Reinvoke \/ Step(1)

NextResume == Progress \/ JobFailure

SpecResume == InitResume /\ [][NextResume]_vars /\ WF_vars(Progress)

(***************************************************************************)
(* Properties.                                                             *)
(***************************************************************************)
\* the basenames of the fold directories of the folds a command line lists
ListedFoldDirs(a) == {_fold_dir_basename(f) : f \in Range(a.folds)}

\* the paths of the Artifact Store: models, outputs, indices and reports
Artifacts == ScratchPaths \cup {final_report_dir(Dataset)}

\* C1: within one campaign (eval-current keeps naming the same directory), a
\* fold file that exists in full is never rewritten by any step of any
\* invocation: it stays written in full and keeps the same partition.
C1_FoldFileNeverRewritten ==
    [][(fs[FoldFilePath(Dataset)] = 2 /\ evalCur' = evalCur)
          => (fs'[FoldFilePath(Dataset)] = 2 /\ foldsJson' = foldsJson)]_vars

\* C2: a _do_fold entered on a fold whose pipeline has completed (the report
\* of the fold is there) skips every learner and every configuration (no
\* learn job and no decode job is dispatched), and the index of the fold
\* stays, through the rewrite, what the first run wrote.
C2_RerunIsIdempotent ==
    \A p \in Procs :
        entry[p].rerun =>
            /\ \A i \in 1..NL : lst[p][i] \in {0, 1}
            /\ \A i \in 1..NE : dst[p][i] \in {0, 1}
            /\ index[IndexPath(_fold_dir_basename(fold[p]))] = entry[p].index

\* a second _do_fold of a completed fold has skipped everything and has
\* rewritten the index
C2_Witness ==
    /\ entry[1].rerun
    /\ pc[1] = "freport"
    /\ \A i \in 1..NL : lst[1][i] = 1
    /\ \A i \in 1..NE : dst[1][i] = 1
    /\ IndexPath(_fold_dir_basename(fold[1])) \in written[1]

\* C3: in a _do_fold entered on a fold without any model file, once the
\* learn batch has returned every learner of EVALUATIONS has had its learn
\* job (none was skipped), and once the decode batch has returned every
\* configuration has had its decode job.
C3_OneLearnJobPerLearner ==
    \A p \in Procs :
        (entry[p].clean /\ pc[p] \in {"decode", "post", "findex", "freport"}) =>
            /\ \A i \in 1..NL : lst[p][i] = 5
            /\ pc[p] # "decode" => \A i \in 1..NE : dst[p][i] = 3

\* C4: within a fold, a configuration is taken up for decoding (its models
\* loaded, its job dispatched) only when every learner was skipped or its
\* job has returned; reassembly begins only when every configuration was
\* skipped or its decode job has returned; the index and the report of the
\* fold are made only when every configuration has been reassembled.
C4_StageGating ==
    \A p \in Procs :
        /\ (\E i \in 1..NE : dst[p][i] # 0) => \A j \in 1..NL : lst[p][j] \in {1, 5}
        /\ post[p] > 0 => \A i \in 1..NE : dst[p][i] \in {1, 3}
        /\ pc[p] \in {"findex", "freport"} => post[p] = 2 * NE
        /\ IndexPath(_fold_dir_basename(fold[p])) \in written[p] => post[p] = 2 * NE

\* a fold whose learn jobs and decode jobs ran has reached its report
C4_Witness ==
    /\ pc[1] = "freport"
    /\ \E i \in 1..NL : lst[1][i] = 5
    /\ \E i \in 1..NE : dst[1][i] = 3

\* C5: when no learn job of the invocation is writing the model files, a
\* learner is skipped only if both its model files are written in full, a
\* configuration is skipped only if its output is written in full, and the
\* models loaded for a decode job are written in full.
C5_NoPartialArtifactReused ==
    [][\A p \in Procs :
          (\A j \in 1..NL : lst[p][j] \notin {2, 3, 4}) =>
              /\ \A i \in 1..NL :
                    (lst[p][i] = 0 /\ lst'[p][i] = 1) =>
                        \A path \in ModelPaths(Dataset, learner_confs[i], fold[p]) : fs[path] = 2
              /\ \A i \in 1..NE :
                    (dst[p][i] = 0 /\ dst'[p][i] = 1) =>
                        fs[_decode_output_path(EVALUATIONS[i], fold[p])] = 2
              /\ \A i \in 1..NE :
                    (dst[p][i] = 0 /\ dst'[p][i] = 2) =>
                        \A path \in ModelPaths(Dataset, i, fold[p]) : fs[path] = 2]_vars

\* C6: two invocations with disjoint --folds never write the same path, and
\* every path either writes is under a fold directory of its own folds.
C6_ClusterIsolation ==
    \A p \in Procs :
        /\ \A q \in Procs \ {p} : written[p] \cap written[q] = {}
        /\ \A path \in written[p] :
              path[1] = "scratch" /\ path[2] \in ListedFoldDirs(args[p])

\* C7: an invocation with --folds creates or writes artifacts only under the
\* fold directories of the folds it lists: none under another fold
\* directory, and neither the global index, the global report nor its copy.
C7_FoldsFrame ==
    \A p \in Procs :
        args[p].folds # None =>
            \A path \in written[p] \cap Artifacts : path[2] \in ListedFoldDirs(args[p])

\* an invocation with --folds has run the pipeline of its fold to the report
C7_Witness ==
    /\ args[1].folds = <<1>>
    /\ pc[1] = "done"
    /\ _report_dir(Dataset, _fold_dir_basename(1)) \in written[1]
    /\ _eval_model_path(Dataset, EVALUATIONS[1], 1, "relate") \in written[1]

C9_JobFailureStopsTheWorld ==
    [][\A p \in Procs :
          (exitMsg[p] = "job raised" /\ runs' = runs) =>
              /\ pc[p] = "failed"
              /\ pc'[p] = "failed"
              /\ fs' = fs
              /\ index' = index
              /\ foldsJson' = foldsJson
              /\ nreport' = nreport]_vars

\* a job has raised after paths of the scratch directory were written
C9_Witness ==
    /\ exitMsg[1] = "job raised"
    /\ pc[1] = "failed"
    /\ \E path \in ScratchPaths : fs[path] # 0

\* C10: _create_eval_dirs called with --resume, --end or --folds while a link
\* is missing ends the invocation with the message of the missing
\* prerequisite; nothing was written before it and the step changes neither
\* link nor any path.
C10_MissingLinkIsFatal ==
    [][\A p \in Procs :
          (/\ pc[p] = "dirs"
           /\ args[p].resume \/ args[p].end \/ args[p].folds # None
           /\ evalCur = 0 \/ scratchCur = 0
           /\ pc'[p] # "dirs") =>
              /\ written[p] = {}
              /\ pc'[p] \in {"fatal", "killed"}
              /\ pc'[p] = "fatal" =>
                    exitMsg'[p] = "No currently running evaluation to resume!"
              /\ evalCur' = evalCur
              /\ scratchCur' = scratchCur
              /\ fs' = fs
              /\ index' = index
              /\ foldsJson' = foldsJson]_vars

\* --resume has found eval-current without scratch-current and has exited
C10_Witness ==
    /\ args[1].resume
    /\ pc[1] = "fatal"
    /\ exitMsg[1] = "No currently running evaluation to resume!"
    /\ evalCur # 0
    /\ scratchCur = 0

\* C12: whatever lists are declared, no two configurations of the loaded
\* EVALUATIONS have the same combined key.
C12_CombinedKeysUnique ==
    evaluations.loaded =>
        \A i, j \in 1..Len(evaluations.list) :
            evaluations.list[i].key = evaluations.list[j].key => i = j

\* C13: the loaded EVALUATIONS holds no configuration that pairs the heads
\* intra-sentential strategy with a core decoder other than mst, nor the
\* oracle learner with an intra or inter oracle flag, nor a learner that
\* gives no probability with a decoding mode other than post-label.
C13_NoJunkConfiguration ==
    evaluations.loaded =>
        \A i \in 1..Len(evaluations.list) :
            LET e == evaluations.list[i] IN
            /\ ~(e.settings.intra.strategy = "heads"
                 /\ e.decoder.core # <<"mst">>)
            /\ ~(e.learner.key = <<"oracle">>
                 /\ (e.settings.intra.intra_oracle
                     \/ e.settings.intra.inter_oracle))
            /\ ~(~e.learner.prob /\ e.settings.mode # "post_label")

\* the module is loaded from lists that declare a pair of every excluded
\* kind, and some configuration is kept
C13_Witness ==
    /\ evaluations.loaded
    /\ evaluations.list # << >>
    /\ declared.core # << >>
    /\ \E l \in Range(declared.local), t \in Range(declared.settings) :
           ~l.prob /\ t.mode # "post_label"
    /\ \E l \in Range(declared.local), t \in Range(declared.settings) :
           l.key = <<"oracle">> /\ t.intra.intra_oracle
    /\ \E t \in Range(declared.settings) : t.intra.strategy = "heads"

JobPaths ==
    UNION {ModelPaths(ds, i, f) : ds \in Datasets, i \in 1..NE, f \in FoldIds}
    \cup {DecodePartsPath(EVALUATIONS[i], f) : i \in 1..NE, f \in FoldIds}

\* C11: an invocation that exits fatally (no gathered data for a corpus of
\* TRAINING_CORPORA, no current campaign to resume, or a campaign of the
\* same timestamp) has dispatched no learn or decode job, and no job is
\* dispatched while the gathered data of some corpus is missing.
C11_ErrorsBeforeJobs ==
    \A p \in Procs :
        /\ pc[p] = "fatal" => written[p] \cap JobPaths = {}
        /\ (\/ \E i \in 1..NL : lst[p][i] \in {2, 3, 4}
            \/ \E i \in 1..NE : dst[p][i] = 2)
           => \A k \in 1..Len(declared.corpora) :
                  fs[_edu_input_path(declared.corpora[k])] # 0

\* C15: every fold that _do_fold runs is a fold of the loaded partition, so
\* a fold id after --folds that the partition does not have is never run.
C15_FoldsOfThePartition ==
    \A p \in Procs :
        pc[p] \in {"learn", "decode", "post", "findex", "freport"}
            => fold[p] \in FoldValues(dfolds[p])

\* C16: when the report generator runs, on the index of a fold or on the
\* global index, every output file the index names (a configuration in the
\* directory of a fold of the index) exists.
C16_IndexNamesExistingOutputs ==
    \A p \in Procs :
        /\ pc[p] = "freport" =>
              \A c \in index[IndexPath(_fold_dir_basename(fold[p]))].configurations :
                  fs[<<"scratch", _fold_dir_basename(fold[p]), c>>] # 0
        /\ pc[p] = "greport" =>
              \A e \in index[IndexPath(None)].folds :
                  \A c \in index[IndexPath(None)].configurations :
                      fs[<<"scratch", e[2], c>>] # 0

\* C17: a fresh invocation (no --resume, --end or --folds) that comes to
\* _create_eval_dirs when the eval or the scratch directory of the current
\* timestamp exists goes nowhere but to the fatal exit, and leaves the
\* directories, their contents and the links as they are.
C17_SameTimestampIsFatal ==
    [][\A p \in Procs :
          (/\ pc[p] = "dirs"
           /\ ~(args[p].resume \/ args[p].end \/ args[p].folds # None)
           /\ (evalCur = clock \/ scratchCur = clock)
           /\ pc'[p] # "dirs")
          => /\ pc'[p] \in {"fatal", "killed"}
             /\ pc'[p] = "fatal" =>
                    exitMsg'[p] = "Try again in literally one second"
             /\ fs' = fs
             /\ foldsJson' = foldsJson
             /\ index' = index
             /\ evalCur' = evalCur
             /\ scratchCur' = scratchCur]_vars

\* a fresh invocation has met the campaign of its timestamp and has exited
C17_Witness ==
    /\ pc[1] = "fatal"
    /\ exitMsg[1] = "Try again in literally one second"
    /\ evalCur = clock
    /\ \E path \in Paths : fs[path] # 0

\* C18: an invocation with --start writes nothing but the linked data file
\* and versions.txt, asks for no learn or decode job, reassembles no output
\* and calls no report, and when it has returned the campaign directories
\* exist, are linked, and hold nothing but these two files (no fold file).
C18_StartOnlyCreatesDirs ==
    \A p \in Procs :
        args[p].start =>
            /\ written[p] \subseteq {_edu_input_path(Dataset), VersionsPath}
            /\ \A i \in 1..NL : lst[p][i] = 0
            /\ \A i \in 1..NE : dst[p][i] = 0
            /\ post[p] = 0
            /\ nreport[p] = 0
            /\ pc[p] = "done" =>
                  /\ evalCur # 0
                  /\ scratchCur = evalCur
                  /\ fs[VersionsPath] = 2
                  /\ dataState = "ok" => fs[_edu_input_path(Dataset)] = 2
                  /\ \A path \in Paths \ {_edu_input_path(Dataset), VersionsPath} :
                         fs[path] = 0

\* --start has returned after it created the campaign
C18_Witness ==
    /\ pc[1] = "done"
    /\ args[1].start
    /\ written[1] = {_edu_input_path(Dataset), VersionsPath}

\* C19: when _delayed_learn is asked for the job of a learner in a fold, it
\* returns no job if and only if the attachment model file and the relation
\* model file of the learner both exist; otherwise (one of them, or none) it
\* dispatches a learn job.  The call itself writes nothing.
C19_LearnSkippedIffBothModels ==
    [][\A p \in Procs : \A i \in 1..NL :
          (lst[p][i] = 0 /\ lst'[p][i] \in {1, 2})
          => LET ds == declared.corpora[corpus[p]]
                 econf == EVALUATIONS[learner_confs[i]]
                 both == /\ fs[_eval_model_path(ds, econf, fold[p], "attach")] # 0
                         /\ fs[_eval_model_path(ds, econf, fold[p], "relate")] # 0
             IN /\ lst'[p][i] = 1 <=> both
                /\ lst'[p][i] = 2 <=> ~both
                /\ fs' = fs]_vars

\* one learner was skipped, and a job was dispatched for a learner whose
\* attachment model file exists and whose relation model file does not
C19_Witness ==
    \E i, j \in 1..NL :
        /\ pc[1] = "learn"
        /\ lst[1][i] = 1
        /\ lst[1][j] = 2
        /\ fs[_eval_model_path(Dataset, EVALUATIONS[learner_confs[j]], fold[1], "attach")] # 0
        /\ fs[_eval_model_path(Dataset, EVALUATIONS[learner_confs[j]], fold[1], "relate")] = 0

\* C20: when _delayed_decode is asked for the job of a configuration in a
\* fold, it returns no job if and only if the output file of the
\* configuration exists, and then it changes nothing: no directory or file,
\* and no model file is looked at (a missing model cannot make it raise).
C20_DecodeSkippedIffOutput ==
    [][\A p \in Procs :
          /\ \A i \in 1..NE :
                (dst[p][i] = 0 /\ dst'[p][i] \in {1, 2})
                => LET out == _decode_output_path(EVALUATIONS[i], fold[p]) IN
                   /\ dst'[p][i] = 1 <=> fs[out] # 0
                   /\ dst'[p][i] = 1 =>
                         /\ fs' = fs
                         /\ written' = written
                         /\ index' = index
                         /\ pc' = pc
          /\ (/\ pc[p] = "decode"
              /\ pc'[p] = "crashed"
              /\ \E i \in 1..NE : dst[p][i] = 0)
             => fs[_decode_output_path(EVALUATIONS[NextIdx(dst[p])], fold[p])] = 0]_vars

\* in one fold a configuration was skipped and a job was dispatched for
\* another, whose output file does not exist
C20_Witness ==
    \E i, j \in 1..NE :
        /\ pc[1] = "decode"
        /\ dst[1][i] = 1
        /\ fs[_decode_output_path(EVALUATIONS[i], fold[1])] # 0
        /\ dst[1][j] = 2
        /\ fs[_decode_output_path(EVALUATIONS[j], fold[1])] = 0

\* C21: reassembly of a configuration in a fold is skipped whenever the
\* decode output of that fold and configuration is already there: a call of
\* _post_decode that begins when the output file exists joins nothing and
\* leaves the file as it is; the per-group outputs are joined into the
\* output file only when it does not exist yet.
C21_ReassemblySkippedWhenOutputExists ==
    [][\A p \in Procs : \A i \in 1..NE :
          (/\ pc[p] = "post"
           /\ post[p] = 2 * (i - 1)
           /\ post'[p] = post[p] + 1)
          => LET out == _decode_output_path(EVALUATIONS[i], fold[p]) IN
             fs[out] # 0 => /\ fs'[out] = fs[out]
                            /\ written'[p] = written[p]]_vars

\* C27: the global-report stage can be entered again: when _mk_global_report
\* reaches the copy of the report while the reports directory of the corpus
\* already exists in the eval directory (left by an earlier invocation), the
\* invocation does not end in an error, and a whole report is in the eval
\* directory afterwards.
C27_GlobalReportReentrant ==
    [][\A p \in Procs :
          (/\ pc[p] = "gcopy"
           /\ fs[final_report_dir(dataset(p))] # 0)
          => /\ pc'[p] # "crashed"
             /\ fs'[final_report_dir(dataset(p))] = 2]_vars

\* C25: the jobs of one learn batch are independent: within one fold, two
\* distinct learn jobs dispatched by _do_fold never have a model file in
\* common (also when they are the jobs of one structured learner built for
\* two decoders), and a configuration whose decode job was dispatched has
\* no other learner in the batch that writes the model files it loads.
C25_LearnJobsWriteDistinctPaths ==
    \A p \in Procs :
        /\ \A i, j \in 1..NL :
              (i # j /\ lst[p][i] \in 2..5 /\ lst[p][j] \in 2..5)
              => {_eval_model_path(dataset(p), EVALUATIONS[learner_confs[i]], fold[p], t) :
                     t \in {"attach", "relate"}}
                 \cap
                 {_eval_model_path(dataset(p), EVALUATIONS[learner_confs[j]], fold[p], t) :
                     t \in {"attach", "relate"}} = {}
        /\ \A e \in 1..NE : \A j \in 1..NL :
              (/\ dst[p][e] \in {2, 3}
               /\ lst[p][j] \in 2..5
               /\ EVALUATIONS[learner_confs[j]].learner # EVALUATIONS[e].learner)
              => \A t \in {"attach", "relate"} :
                    _eval_model_path(dataset(p), EVALUATIONS[learner_confs[j]], fold[p], t)
                    # _eval_model_path(dataset(p), EVALUATIONS[e], fold[p], t)

\* C26: _is_junk discards a pair of a declared learner and a keyed decoder
\* only when one of the three rules applies (the heads strategy with a core
\* decoder other than mst; the oracle learner with an intra or inter oracle
\* flag; a learner that gives no probability with a mode other than
\* post-label): every other declared pair is in the loaded EVALUATIONS, in
\* particular the heads settings with the core decoder mst and a learner
\* that gives probabilities and is no oracle.
C26_JunkOnlyByTheThreeRules ==
    evaluations.loaded =>
        \A l \in Range(declared.local), s \in Range(declared.settings),
           c \in Range(declared.core) :
            (/\ ~(s.intra.strategy = "heads" /\ c # <<"mst">>)
             /\ ~(l.key = <<"oracle">>
                  /\ (s.intra.intra_oracle \/ s.intra.inter_oracle))
             /\ ~(~l.prob /\ s.mode # "post_label"))
            => \E i \in 1..Len(evaluations.list) :
                   /\ evaluations.list[i].learner = l
                   /\ evaluations.list[i].settings = s
                   /\ evaluations.list[i].decoder.core = c

\* C23: an invocation without --folds and without --end runs the folds one
\* after another: while it is in the pipeline of a fold (its jobs, its
\* reassembly, its index and report) it has generated the report of every
\* fold it took up before, and it enters the global report only when no
\* fold is left and it has generated the report of every fold of the
\* partition.
C23_FoldsOneAfterAnother ==
    \A p \in Procs :
        (args[p].folds = None /\ ~args[p].end) =>
            /\ pc[p] \in {"learn", "decode", "post", "findex", "freport"} =>
                  \A f \in FoldValues(dfolds[p]) \ (Range(todo[p]) \cup {fold[p]}) :
                      _report_dir(dataset(p), _fold_dir_basename(f)) \in written[p]
            /\ pc[p] \in {"gindex", "greport", "gcopy"} =>
                  /\ todo[p] = << >>
                  /\ \A i \in 1..NL : lst[p][i] \in {0, 1, 5}
                  /\ \A i \in 1..NE : dst[p][i] \in {0, 1, 3}
                  /\ \A f \in FoldValues(dfolds[p]) :
                        _report_dir(dataset(p), _fold_dir_basename(f)) \in written[p]

\* an invocation without --folds and without --end has dispatched a learn
\* job in its second fold, the report of the first being generated
C23_Witness ==
    /\ args[1].folds = None
    /\ ~args[1].end
    /\ pc[1] = "learn"
    /\ \E i \in 1..NL : lst[1][i] = 2
    /\ \E f \in FoldValues(dfolds[1]) :
          /\ f # fold[1]
          /\ _report_dir(dataset(1), _fold_dir_basename(f)) \in written[1]

\* C22: the models delayed_decode gives its jobs: when settings.intra is
\* None, the document-level pair loaded from its two files; otherwise a pair
\* whose intra side is the oracle team if and only if intra_oracle is set,
\* and else is loaded from the sentence-level files, and whose inter side is
\* the oracle team if and only if inter_oracle is set, and else is loaded
\* from the document-level files; each side follows its own flag, and the
\* files read are those of the sides that are no oracle, and no other.
C22_ModelResolution ==
    (djobs # None /\ djobs.jobs) =>
        LET flag == dcall.econf.settings.intra
            doc == attelo_doc_model_paths(dcall.econf.learner, dcall.fold)
            sent == attelo_sent_model_paths(dcall.econf.learner, dcall.fold)
            docTeam == Team(load_model(doc.attach), load_model(doc.relate))
            sentTeam == Team(load_model(sent.attach), load_model(sent.relate))
        IN IF flag = NoIntra
           THEN /\ djobs.models = docTeam
                /\ djobs.read = {doc.attach, doc.relate}
           ELSE /\ djobs.models.intra = OracleTeam <=> flag.intra_oracle
                /\ ~flag.intra_oracle => djobs.models.intra = sentTeam
                /\ djobs.models.inter = OracleTeam <=> flag.inter_oracle
                /\ ~flag.inter_oracle => djobs.models.inter = docTeam
                /\ djobs.read =
                      (IF flag.intra_oracle THEN {} ELSE {sent.attach, sent.relate})
                      \cup
                      (IF flag.inter_oracle THEN {} ELSE {doc.attach, doc.relate})

\* delayed_decode has returned jobs for settings whose intra flag sets the
\* intra oracle and not the inter oracle
C22_Witness ==
    /\ djobs # None
    /\ djobs.jobs
    /\ dcall.econf.settings.intra # NoIntra
    /\ dcall.econf.settings.intra.intra_oracle
    /\ ~dcall.econf.settings.intra.inter_oracle
    /\ djobs.models.intra = OracleTeam
    /\ djobs.read # {}

\* C24: resumability: when the command is invoked again with --resume after
\* every invocation that a job failure aborted, and jobs raise only finitely
\* often (from some point on no invocation is left aborted by a job), then
\* eventually an invocation completes with the decode output of every
\* configuration written in every fold of the partition and with the global
\* report in the eval directory.
C24_ResumeEventuallyCompletes ==
    (<>[](pc[1] # "failed"))
    => <>(/\ pc[1] = "done"
          /\ \A f \in FoldValues(foldsJson[Dataset]) : \A i \in 1..NE :
                fs[_decode_output_path(EVALUATIONS[i], f)] = 2
          /\ fs[final_report_dir(Dataset)] = 2)

====
